---- MODULE Spec2Model ----
(***************************************************************************)
(* Model of async_fs (src/src/lib.rs): four poll-driven state machines    *)
(* (AsyncFileWrite, AsyncFileSink, AsyncFileRead, AsyncFileStream) that    *)
(* move a std::fs::File into a CpuPool task and back.                      *)
(*                                                                         *)
(* One machine instance is modelled at a time; `kind` says which.  A       *)
(* handler is a pure operator from the instance ("world" record) and its   *)
(* argument to the set of outcomes the call can have; the worker thread    *)
(* runs concurrently, so a handler that submits a task and polls it in the *)
(* same call has one outcome for each thing the worker may have done in    *)
(* between.                                                                *)
(***************************************************************************)
EXTENDS Integers, Sequences, FiniteSets, TLC

VARIABLES
    kind,      \* which struct the instance is
    state,     \* tag of the `state` field (Async*State enum)
    fut,       \* the CpuFuture held by an in-flight state
    buf,       \* writer/reader: contents of the shared Arc<RwLock<Vec<u8>>>
    cap,       \* buffer capacity (writer, reader) / buffer_size (stream)
    file,      \* the std::fs::File: bytes and cursor
    tasks,     \* closures submitted to the CpuPool and not yet run (FIFO)
    ret,       \* what the last step returned to the caller
    panicked,  \* the calling thread has panicked
    sent,      \* history: bytes of all chunks the sink has accepted
    hist,      \* history: argument of the call that made the latest
               \* submission; whether the stream has emitted None
    drv        \* the calling loop of a round-trip scenario

vars == <<kind, state, fut, buf, cap, file, tasks, ret, panicked, sent, hist, drv>>

\* ---- bounds -------------------------------------------------------------
MaxLen == 2      \* longest slice / chunk / destination a caller passes
MaxCap == 2      \* largest buffer capacity
MaxFile == 3     \* longest file
MaxItems == 2    \* most strings / chunks in a round-trip scenario

Byte == {1, 2}
Uninit == 0      \* a byte of the reader's buffer that was never written

Min(a, b) == IF a < b THEN a ELSE b

SeqsUpTo(n) == UNION {[1..k -> Byte] : k \in 0..n}

RECURSIVE Concat(_)
Concat(ss) == IF ss = <<>> THEN <<>> ELSE Head(ss) \o Concat(Tail(ss))

Kinds == {"writer", "sink", "reader", "stream"}

\* ---- the CpuPool and its futures ----------------------------------------
\* fut.st: "none" (no future held), "pending" (task queued), "ready" (result
\* in the slot, not yet polled), "consumed" (result taken by a poll).
NoFuture == [st |-> "none", ok |-> TRUE, size |-> 0, chunk |-> <<>>]

World ==
    [state |-> state, fut |-> fut, buf |-> buf, file |-> file,
     tasks |-> tasks, spawned |-> 0]

\* cpu_pool.spawn_fn(closure): queue the closure; the state now holds the new
\* CpuFuture, any future it held before is dropped.
spawn_fn(w, op, data, len) ==
    [w EXCEPT
        !.tasks = Append([i \in DOMAIN w.tasks |-> [w.tasks[i] EXCEPT !.watched = FALSE]],
                         [op |-> op, data |-> data, len |-> len, watched |-> TRUE]),
        !.fut = [st |-> "pending", ok |-> TRUE, size |-> 0, chunk |-> <<>>],
        !.spawned = @ + 1]

\* CpuFuture::poll.  A future whose result was already taken must not be
\* polled again: futures-cpupool panics ("cannot poll CpuFuture twice").
poll_future(w) ==
    CASE w.fut.st = "pending" -> [w |-> w, res |-> "NotReady", val |-> w.fut]
      [] w.fut.st = "ready" ->
            [w |-> [w EXCEPT !.fut.st = "consumed"],
             res |-> IF w.fut.ok THEN "Ready" ELSE "Err", val |-> w.fut]
      [] OTHER -> [w |-> w, res |-> "Panic", val |-> w.fut]

\* std::mem::replace(&mut self.state, Swapping): the Ready arm takes the file
\* out of the state; the arm's assignment to self.state then overwrites the marker.
replace_Swapping(w) == [w EXCEPT !.state = "Swapping"]

\* ---- the blocking calls, as run by a worker thread ----------------------
WriteAt(f, data) ==
    [content |-> SubSeq(f.content, 1, f.pos) \o data
                   \o SubSeq(f.content, f.pos + Len(data) + 1, Len(f.content)),
     pos |-> f.pos + Len(data)]

Avail(f) == Len(f.content) - f.pos

\* What the blocking call of the task at the head of the queue can do: succeed
\* having transferred n bytes, or fail (write_all: after a prefix of n bytes).
\* A closure whose CpuFuture was dropped before a worker took it is cancelled:
\* futures-cpupool drops it without running it (CpuFuture::forget is what
\* would keep it running, and the code never calls it).
Outcomes(w) ==
    LET t == Head(w.tasks)
        okn(m) == IF m = 0 THEN {0} ELSE 1..m
    IN  CASE ~t.watched -> {[ok |-> FALSE, n |-> 0]}
          [] t.op = "write" ->
                {[ok |-> TRUE, n |-> n] : n \in okn(Len(w.buf))}
                    \cup {[ok |-> FALSE, n |-> 0]}
          [] t.op = "flush" -> {[ok |-> TRUE, n |-> 0]}
          [] t.op = "write_all" ->
                {[ok |-> TRUE, n |-> Len(t.data)]}
                    \cup {[ok |-> FALSE, n |-> n] : n \in 0..(Len(t.data) - 1)}
          [] OTHER ->  \* "read", "read_chunk"
                {[ok |-> TRUE, n |-> n] : n \in okn(Min(t.len, Avail(w.file)))}
                    \cup {[ok |-> FALSE, n |-> 0]}

\* The worker takes the closure at the head of the queue: it runs it with
\* outcome o and completes its future, or drops it if it was cancelled.
RunTask(w, o) ==
    LET t == Head(w.tasks)
        f == w.file
        got == SubSeq(f.content, f.pos + 1, f.pos + o.n)
        f2 == CASE t.op = "write" -> WriteAt(f, SubSeq(w.buf, 1, o.n))
                [] t.op = "flush" -> f
                [] t.op = "write_all" -> WriteAt(f, SubSeq(t.data, 1, o.n))
                [] OTHER -> [f EXCEPT !.pos = @ + o.n]
        b2 == IF t.op = "read"
              THEN got \o SubSeq(w.buf, o.n + 1, Len(w.buf))
              ELSE w.buf
        done == [st |-> "ready", ok |-> o.ok, size |-> o.n,
                 chunk |-> IF t.op = "read_chunk" THEN got ELSE <<>>]
    IN  IF t.watched
        THEN [w EXCEPT !.tasks = Tail(w.tasks), !.file = f2, !.buf = b2, !.fut = done]
        ELSE [w EXCEPT !.tasks = Tail(w.tasks)]

\* The worlds a handler may find when it comes back to the instance after
\* submitting: the worker has run the queued closure meanwhile, or not.
Interleavings(w) ==
    {w} \cup (IF w.tasks = <<>> THEN {} ELSE {RunTask(w, o) : o \in Outcomes(w)})

\* ---- results of a call ---------------------------------------------------
Result(w, res, size, bytes) == [w |-> w, res |-> res, size |-> size, bytes |-> bytes]

Commit(op, arg, alen, x) ==
    /\ state' = x.w.state
    /\ fut' = x.w.fut
    /\ buf' = x.w.buf
    /\ file' = x.w.file
    /\ tasks' = x.w.tasks
    /\ ret' = [op |-> op, arg |-> arg, alen |-> alen, res |-> x.res,
               size |-> x.size, bytes |-> x.bytes, spawned |-> x.w.spawned]
    /\ panicked' = (x.res = "Panic")
    /\ hist' = [arg |-> IF x.w.spawned > 0 THEN arg ELSE hist.arg,
                alen |-> IF x.w.spawned > 0 THEN alen ELSE hist.alen,
                ended |-> hist.ended \/ (op = "poll" /\ x.res = "None")]

\* ---- AsyncFileWrite ------------------------------------------------------
\* write, arm Write(future): poll the outstanding write.
write_Write(w) ==
    LET p == poll_future(w)
    IN  CASE p.res = "Ready" ->
                Result([p.w EXCEPT !.state = "Ready", !.fut = NoFuture],
                       "Ok", p.val.size, <<>>)
          [] p.res = "Err" -> Result(p.w, "ErrIo", 0, <<>>)
          [] p.res = "NotReady" -> Result(p.w, "WouldBlock", 0, <<>>)
          [] OTHER -> Result(p.w, "Panic", 0, <<>>)

\* Mutant of write_Ready: the buffer is not emptied before it is filled.
write_Ready_no_truncate(w, src) ==
    LET len == Min(Len(src), cap)
    IN  spawn_fn([w EXCEPT !.state = "Write", !.buf = @ \o SubSeq(src, 1, len)],
                 "write", <<>>, 0)

\* Mutant of write_Ready: the prefix is not limited to the buffer's capacity.
write_Ready_no_cap(w, src) ==
    spawn_fn([w EXCEPT !.state = "Write", !.buf = src], "write", <<>>, 0)

\* write, arm Ready(file): fill the shared buffer with the prefix of src that
\* fits its capacity and submit one blocking write of the buffer.
write_Ready(w, src) ==
    LET len == Min(Len(src), cap)
    IN  spawn_fn([replace_Swapping(w) EXCEPT !.state = "Write", !.buf = SubSeq(src, 1, len)],
                 "write", <<>>, 0)

\* Mutant of write: the Write arm refills the shared buffer before polling.
write_refill(w, src) ==
    CASE w.state = "Write" ->
            {write_Write([w EXCEPT !.buf = SubSeq(src, 1, Min(Len(src), cap))])}
      [] w.state = "Ready" ->
            {write_Write(w2) : w2 \in Interleavings(write_Ready(w, src))}
      [] w.state = "Swapping" -> {Result(w, "ErrShutdown", 0, <<>>)}
      [] OTHER -> {Result(w, "WouldBlock", 0, <<>>)}

\* std::io::Write::write: the match inside the loop.  After the Ready arm the
\* loop comes round to the Write arm and polls the task it has just submitted.
write(w, src) ==
    CASE w.state = "Write" -> {write_Write(w)}
      [] w.state = "Ready" ->
            {write_Write(w2) : w2 \in Interleavings(write_Ready(w, src))}
      [] w.state = "Swapping" -> {Result(w, "ErrShutdown", 0, <<>>)}
      [] OTHER -> {Result(w, "WouldBlock", 0, <<>>)}

\* flush, arm Flush(future).
flush_Flush(w) ==
    LET p == poll_future(w)
    IN  CASE p.res = "Ready" ->
                Result([p.w EXCEPT !.state = "Ready", !.fut = NoFuture], "Ok", 0, <<>>)
          [] p.res = "Err" -> Result(p.w, "ErrIo", 0, <<>>)
          [] p.res = "NotReady" -> Result(p.w, "WouldBlock", 0, <<>>)
          [] OTHER -> Result(p.w, "Panic", 0, <<>>)

\* Mutant of flush_Ready: the file is taken out but no in-flight state is stored.
flush_Ready_lost(w) == replace_Swapping(w)
\* flush, arm Ready(file).
flush_Ready(w) == spawn_fn([replace_Swapping(w) EXCEPT !.state = "Flush"], "flush", <<>>, 0)

\* Mutant of flush: the catch-all arm submits instead of breaking out.
flush_unguarded(w) ==
    CASE w.state = "Flush" -> {flush_Flush(w)}
      [] w.state = "Swapping" -> {Result(w, "ErrShutdown", 0, <<>>)}
      [] OTHER -> {flush_Flush(w2) : w2 \in Interleavings(flush_Ready(w))}

\* std::io::Write::flush.
flush(w) ==
    CASE w.state = "Flush" -> {flush_Flush(w)}
      [] w.state = "Ready" -> {flush_Flush(w2) : w2 \in Interleavings(flush_Ready(w))}
      [] w.state = "Swapping" -> {Result(w, "ErrShutdown", 0, <<>>)}
      [] OTHER -> {Result(w, "WouldBlock", 0, <<>>)}

\* ---- AsyncFileSink -------------------------------------------------------
\* Mutant of start_send_Write: on completion the file is stored back and the
\* item is reported accepted without being submitted.
start_send_Write_drop(w, item) ==
    LET p == poll_future(w)
    IN  CASE p.res = "Ready" ->
                Result([p.w EXCEPT !.state = "Ready", !.fut = NoFuture],
                       "AsyncSink_Ready", 0, <<>>)
          [] p.res = "Err" -> Result(p.w, "ErrIo", 0, <<>>)
          [] p.res = "NotReady" -> Result(p.w, "AsyncSink_NotReady", 0, item)
          [] OTHER -> Result(p.w, "Panic", 0, <<>>)

\* Mutant of start_send_Write: a pending write does not hold the item back.
start_send_Write_no_backpressure(w, item) ==
    LET p == poll_future(w)
    IN  CASE p.res = "Ready" ->
                Result(spawn_fn(p.w, "write_all", item, 0), "AsyncSink_Ready", 0, <<>>)
          [] p.res = "Err" -> Result(p.w, "ErrIo", 0, <<>>)
          [] p.res = "NotReady" ->
                Result(spawn_fn(p.w, "write_all", item, 0), "AsyncSink_Ready", 0, <<>>)
          [] OTHER -> Result(p.w, "Panic", 0, <<>>)

\* start_send, arm Write(future): poll; on completion submit the item at once.
start_send_Write(w, item) ==
    LET p == poll_future(w)
    IN  CASE p.res = "Ready" ->
                Result(spawn_fn(p.w, "write_all", item, 0), "AsyncSink_Ready", 0, <<>>)
          [] p.res = "Err" -> Result(p.w, "ErrIo", 0, <<>>)
          [] p.res = "NotReady" -> Result(p.w, "AsyncSink_NotReady", 0, item)
          [] OTHER -> Result(p.w, "Panic", 0, <<>>)

\* start_send, arm Ready(file).
start_send_Ready(w, item) ==
    Result(spawn_fn([replace_Swapping(w) EXCEPT !.state = "Write"], "write_all", item, 0),
           "AsyncSink_Ready", 0, <<>>)

\* futures::Sink::start_send.
start_send(w, item) ==
    CASE w.state = "Write" -> {start_send_Write(w, item)}
      [] w.state = "Ready" -> {start_send_Ready(w, item)}
      [] OTHER -> {Result(w, "ErrShutdown", 0, <<>>)}

\* Mutant of poll_complete: a pending write is reported as drained.
poll_complete_eager(w) ==
    CASE w.state = "Write" ->
            LET p == poll_future(w)
            IN  {CASE p.res = "Ready" ->
                        Result([p.w EXCEPT !.state = "Ready", !.fut = NoFuture],
                               "Async_Ready", 0, <<>>)
                   [] p.res = "Err" -> Result(p.w, "ErrIo", 0, <<>>)
                   [] p.res = "NotReady" -> Result(p.w, "Async_Ready", 0, <<>>)
                   [] OTHER -> Result(p.w, "Panic", 0, <<>>)}
      [] w.state = "Ready" -> {Result(w, "Async_Ready", 0, <<>>)}
      [] OTHER -> {Result(w, "ErrShutdown", 0, <<>>)}

\* futures::Sink::poll_complete.
poll_complete(w) ==
    CASE w.state = "Write" ->
            LET p == poll_future(w)
            IN  {CASE p.res = "Ready" ->
                        Result([p.w EXCEPT !.state = "Ready", !.fut = NoFuture],
                               "Async_Ready", 0, <<>>)
                   [] p.res = "Err" -> Result(p.w, "ErrIo", 0, <<>>)
                   [] p.res = "NotReady" -> Result(p.w, "Async_NotReady", 0, <<>>)
                   [] OTHER -> Result(p.w, "Panic", 0, <<>>)}
      [] w.state = "Ready" -> {Result(w, "Async_Ready", 0, <<>>)}
      [] OTHER -> {Result(w, "ErrShutdown", 0, <<>>)}

\* ---- AsyncFileRead -------------------------------------------------------
\* Mutant of read_Read: the count is returned but the bytes are not copied
\* into the destination.
read_Read_no_copy(w, dlen) ==
    LET p == poll_future(w)
    IN  CASE p.res = "Ready" ->
                Result([p.w EXCEPT !.state = "Ready", !.fut = NoFuture],
                       "Ok", p.val.size, [i \in 1..p.val.size |-> Uninit])
          [] p.res = "Err" -> Result(p.w, "ErrIo", 0, <<>>)
          [] p.res = "NotReady" -> Result(p.w, "WouldBlock", 0, <<>>)
          [] OTHER -> Result(p.w, "Panic", 0, <<>>)

\* read, arm Read(future): on completion store the file back, then copy `size`
\* bytes of the shared buffer into buf[..size] (a slice index that panics when
\* size exceeds the destination's length).
read_Read(w, dlen) ==
    LET p == poll_future(w)
    IN  CASE p.res = "Ready" ->
                LET w2 == [p.w EXCEPT !.state = "Ready", !.fut = NoFuture]
                IN  IF p.val.size > dlen \/ p.val.size > Len(w.buf)
                    THEN Result(w2, "Panic", 0, <<>>)
                    ELSE Result(w2, "Ok", p.val.size, SubSeq(w.buf, 1, p.val.size))
          [] p.res = "Err" -> Result(p.w, "ErrIo", 0, <<>>)
          [] p.res = "NotReady" -> Result(p.w, "WouldBlock", 0, <<>>)
          [] OTHER -> Result(p.w, "Panic", 0, <<>>)

\* Mutant of read_Ready: the file is moved out and nothing is submitted.
read_Ready_lost(w, dlen) == [w EXCEPT !.state = "Swapping"]

\* read, arm Ready(file): submit one blocking read into the first
\* min(len(buf), capacity) bytes of the shared buffer.
read_Ready(w, dlen) ==
    spawn_fn([replace_Swapping(w) EXCEPT !.state = "Read"], "read", <<>>, Min(dlen, cap))

\* std::io::Read::read.
read(w, dlen) ==
    CASE w.state = "Read" -> {read_Read(w, dlen)}
      [] w.state = "Ready" ->
            {read_Read(w2, dlen) : w2 \in Interleavings(read_Ready(w, dlen))}
      [] OTHER -> {Result(w, "ErrShutdown", 0, <<>>)}

\* ---- AsyncFileStream -----------------------------------------------------
\* Mutant of poll_Read: the end test is off by one.
poll_Read_short(w) ==
    LET p == poll_future(w)
    IN  CASE p.res = "Ready" ->
                LET w2 == [p.w EXCEPT !.state = "Ready", !.fut = NoFuture]
                IN  IF Len(p.val.chunk) > 1
                    THEN Result(w2, "Some", Len(p.val.chunk), p.val.chunk)
                    ELSE Result(w2, "None", 0, <<>>)
          [] p.res = "Err" -> Result(p.w, "ErrIo", 0, <<>>)
          [] p.res = "NotReady" -> Result(p.w, "Async_NotReady", 0, <<>>)
          [] OTHER -> Result(p.w, "Panic", 0, <<>>)

\* Mutant of poll_Read: the chunk is emitted without the emptiness test.
poll_Read_always_some(w) ==
    LET p == poll_future(w)
    IN  CASE p.res = "Ready" ->
                Result([p.w EXCEPT !.state = "Ready", !.fut = NoFuture],
                       "Some", Len(p.val.chunk), p.val.chunk)
          [] p.res = "Err" -> Result(p.w, "ErrIo", 0, <<>>)
          [] p.res = "NotReady" -> Result(p.w, "Async_NotReady", 0, <<>>)
          [] OTHER -> Result(p.w, "Panic", 0, <<>>)

\* Mutant of poll_Read: at the end of the file the state is not restored.
poll_Read_end_keeps_future(w) ==
    LET p == poll_future(w)
    IN  CASE p.res = "Ready" ->
                IF Len(p.val.chunk) > 0
                THEN Result([p.w EXCEPT !.state = "Ready", !.fut = NoFuture],
                            "Some", Len(p.val.chunk), p.val.chunk)
                ELSE Result(p.w, "None", 0, <<>>)
          [] p.res = "Err" -> Result(p.w, "ErrIo", 0, <<>>)
          [] p.res = "NotReady" -> Result(p.w, "Async_NotReady", 0, <<>>)
          [] OTHER -> Result(p.w, "Panic", 0, <<>>)

\* poll, arm Read(future).
poll_Read(w) ==
    LET p == poll_future(w)
    IN  CASE p.res = "Ready" ->
                LET w2 == [p.w EXCEPT !.state = "Ready", !.fut = NoFuture]
                IN  IF Len(p.val.chunk) > 0
                    THEN Result(w2, "Some", Len(p.val.chunk), p.val.chunk)
                    ELSE Result(w2, "None", 0, <<>>)
          [] p.res = "Err" -> Result(p.w, "ErrIo", 0, <<>>)
          [] p.res = "NotReady" -> Result(p.w, "Async_NotReady", 0, <<>>)
          [] OTHER -> Result(p.w, "Panic", 0, <<>>)

\* Mutant of poll_Ready: the read is one byte shorter than buffer_size.
poll_Ready_short_buffer(w) ==
    spawn_fn([w EXCEPT !.state = "Read"], "read_chunk", <<>>,
             IF cap > 0 THEN cap - 1 ELSE 0)

\* poll, arm Ready(file): submit one blocking read of up to buffer_size bytes
\* into a fresh buffer, truncated to what was read.
poll_Ready(w) == spawn_fn([replace_Swapping(w) EXCEPT !.state = "Read"], "read_chunk", <<>>, cap)

\* futures::stream::Stream::poll.
poll(w) ==
    CASE w.state = "Read" -> {poll_Read(w)}
      [] w.state = "Ready" -> {poll_Read(w2) : w2 \in Interleavings(poll_Ready(w))}
      [] OTHER -> {Result(w, "ErrShutdown", 0, <<>>)}

\* tokio::io::AsyncWrite::shutdown: reports Ready without looking at the state.
shutdown(w) == {Result(w, "Async_Ready", 0, <<>>)}

\* ---- conversion back and destruction ----------------------------------------
\* The instance goes away: its state is dropped, and with it the CpuFuture an
\* in-flight state holds, which cancels a closure no worker has taken yet.
drop_instance(w) ==
    [w EXCEPT !.state = "Dropped", !.fut = NoFuture,
              !.tasks = [i \in DOMAIN w.tasks |-> [w.tasks[i] EXCEPT !.watched = FALSE]]]

\* TryFrom<Async*> for std::fs::File: takes the instance by value.
try_from(w) ==
    CASE w.state = "Ready" -> {Result(drop_instance(w), "Ok", 0, <<>>)}
      [] w.state = "Swapping" -> {Result(drop_instance(w), "ErrShutdown", 0, <<>>)}
      [] OTHER -> {Result(drop_instance(w), "WouldBlock", 0, <<>>)}

\* ---- construction --------------------------------------------------------
NoRet == [op |-> "none", arg |-> <<>>, alen |-> 0, res |-> "none", size |-> 0,
          bytes |-> <<>>, spawned |-> 0]
\* The caller's loop; "free" when the caller makes arbitrary calls.
NoDrv == [input |-> <<>>, idx |-> 1, off |-> 0, dlen |-> 0, out |-> <<>>,
          status |-> "free"]

\* from_std: state Ready(file); the writer's buffer is empty, the reader's has
\* buffer_size bytes that were never initialised.  A file handed to a writer or
\* a sink is freshly created; one handed to a reader or a stream has content.
from_std(k, c, content) ==
    /\ kind = k
    /\ cap = c
    /\ state = "Ready"
    /\ fut = NoFuture
    /\ buf = IF k = "reader" THEN [i \in 1..c |-> Uninit] ELSE <<>>
    /\ file = [content |-> content, pos |-> 0]
    /\ tasks = <<>>
    /\ ret = NoRet
    /\ panicked = FALSE
    /\ sent = <<>>
    /\ hist = [arg |-> <<>>, alen |-> 0, ended |-> FALSE]

Init ==
    /\ \E k \in Kinds, c \in 0..MaxCap, content \in SeqsUpTo(MaxFile) :
          /\ k \in {"writer", "sink"} => content = <<>>
          /\ k = "sink" => c = 0
          /\ from_std(k, c, content)
    /\ drv = NoDrv

\* The instance exists (it was not moved into try_from nor dropped) and its
\* caller has not panicked.
Alive == state # "Dropped" /\ ~panicked

\* ---- steps ---------------------------------------------------------------
\* A worker thread of the pool runs the next queued closure.
Worker ==
    /\ tasks # <<>>
    /\ \E o \in Outcomes(World) :
          LET w2 == RunTask(World, o)
          IN  /\ state' = w2.state
              /\ fut' = w2.fut
              /\ buf' = w2.buf
              /\ file' = w2.file
              /\ tasks' = w2.tasks
    /\ ret' = [NoRet EXCEPT !.op = "worker",
                            !.res = IF Head(tasks).watched THEN "Ran" ELSE "Cancelled"]
    /\ UNCHANGED <<kind, cap, panicked, sent, hist, drv>>


CallWrite ==
    /\ kind = "writer" /\ Alive
    /\ \E src \in SeqsUpTo(MaxLen) :
          /\ state = "Ready" => Len(file.content) + Len(src) <= MaxFile
          /\ \E x \in write(World, src) : Commit("write", src, Len(src), x)
    /\ UNCHANGED <<kind, cap, sent, drv>>

CallFlush ==
    /\ kind = "writer" /\ Alive
    /\ \E x \in flush(World) : Commit("flush", <<>>, 0, x)
    /\ UNCHANGED <<kind, cap, sent, drv>>

CallShutdown ==
    /\ kind = "writer" /\ Alive
    /\ \E x \in shutdown(World) : Commit("shutdown", <<>>, 0, x)
    /\ UNCHANGED <<kind, cap, sent, drv>>

CallStartSend ==
    /\ kind = "sink" /\ Alive
    /\ \E item \in SeqsUpTo(MaxLen) :
          /\ Len(sent) + Len(item) <= MaxFile
          /\ \E x \in start_send(World, item) :
                /\ Commit("start_send", item, Len(item), x)
                /\ sent' = IF x.res = "AsyncSink_Ready" THEN sent \o item ELSE sent
    /\ UNCHANGED <<kind, cap, drv>>

CallPollComplete ==
    /\ kind = "sink" /\ Alive
    /\ \E x \in poll_complete(World) : Commit("poll_complete", <<>>, 0, x)
    /\ UNCHANGED <<kind, cap, sent, drv>>

CallRead ==
    /\ kind = "reader" /\ Alive
    /\ \E dlen \in 0..MaxLen : \E x \in read(World, dlen) : Commit("read", <<>>, dlen, x)
    /\ UNCHANGED <<kind, cap, sent, drv>>

CallPoll ==
    /\ kind = "stream" /\ Alive
    /\ \E x \in poll(World) : Commit("poll", <<>>, 0, x)
    /\ UNCHANGED <<kind, cap, sent, drv>>

CallTryFrom ==
    /\ Alive
    /\ \E x \in try_from(World) : Commit("try_from", <<>>, 0, x)
    /\ UNCHANGED <<kind, cap, sent, drv>>

\* The caller lets the instance go out of scope.
Drop ==
    /\ state # "Dropped"
    /\ Commit("drop", <<>>, 0, Result(drop_instance(World), "none", 0, <<>>))
    /\ UNCHANGED <<kind, cap, sent, drv>>

Next ==
    \/ CallWrite
    \/ CallFlush
    \/ CallShutdown
    \/ CallStartSend
    \/ CallPollComplete
    \/ CallRead
    \/ CallPoll
    \/ CallTryFrom
    \/ Drop
    \/ Worker

Spec == Init /\ [][Next]_vars

\* The caller keeps polling the stream and the pool's workers keep running
\* queued closures.
FairSpec == Spec /\ WF_vars(CallPoll) /\ WF_vars(Worker)

\* ---- round-trip scenarios (src/src/tests.rs) ------------------------------
Items == UNION {[1..k -> SeqsUpTo(MaxLen)] : k \in 0..MaxItems}

Drv(input, dlen, status) ==
    [input |-> input, idx |-> 1, off |-> 0, dlen |-> dlen, out |-> <<>>,
     status |-> status]

\* The part of the current string that has not been reported written.
Remaining == LET cur == drv.input[drv.idx] IN SubSeq(cur, drv.off + 1, Len(cur))

NextItem(after) ==
    [drv EXCEPT !.idx = @ + 1, !.off = 0,
                !.status = IF drv.idx + 1 > Len(drv.input) THEN after ELSE @]

\* it_write, it_write_long: each string is written by calling write with what
\* remains of it until the counts reported add up to its length.
InitWriteAll ==
    \E c \in 0..MaxCap, input \in Items :
        /\ from_std("writer", c, <<>>)
        /\ drv = Drv(input, 0, IF input = <<>> THEN "done" ELSE "run")

WriteAllStep ==
    /\ drv.status = "run" /\ Alive
    /\ \E x \in write(World, Remaining) :
          /\ Commit("write", Remaining, Len(Remaining), x)
          /\ drv' = CASE x.res = "Ok" ->
                            IF drv.off + x.size >= Len(drv.input[drv.idx])
                            THEN NextItem("done")
                            ELSE [drv EXCEPT !.off = @ + x.size]
                      [] x.res = "WouldBlock" -> drv
                      [] OTHER -> [drv EXCEPT !.status = "failed"]
    /\ UNCHANGED <<kind, cap, sent>>

NextWriteAll == WriteAllStep \/ Worker

SpecWriteAll == InitWriteAll /\ [][NextWriteAll]_vars

\* it_sync, it_sync_long: each chunk is offered to start_send until it is
\* accepted; then poll_complete is polled until it is Ready.
InitSendAll ==
    \E input \in Items :
        /\ from_std("sink", 0, <<>>)
        /\ drv = Drv(input, 0, IF input = <<>> THEN "drain" ELSE "run")

SendStep ==
    /\ drv.status = "run" /\ Alive
    /\ LET item == drv.input[drv.idx]
       IN  \E x \in start_send(World, item) :
              /\ Commit("start_send", item, Len(item), x)
              /\ sent' = IF x.res = "AsyncSink_Ready" THEN sent \o item ELSE sent
              /\ drv' = CASE x.res = "AsyncSink_Ready" -> NextItem("drain")
                          [] x.res = "AsyncSink_NotReady" -> drv
                          [] OTHER -> [drv EXCEPT !.status = "failed"]
    /\ UNCHANGED <<kind, cap>>

CompleteStep ==
    /\ drv.status = "drain" /\ Alive
    /\ \E x \in poll_complete(World) :
          /\ Commit("poll_complete", <<>>, 0, x)
          /\ drv' = CASE x.res = "Async_Ready" -> [drv EXCEPT !.status = "done"]
                      [] x.res = "Async_NotReady" -> drv
                      [] OTHER -> [drv EXCEPT !.status = "failed"]
    /\ UNCHANGED <<kind, cap, sent>>

NextSendAll == SendStep \/ CompleteStep \/ Worker

SpecSendAll == InitSendAll /\ [][NextSendAll]_vars

\* it_read: read is called with a destination of one fixed length, the bytes
\* it returns are appended, until it returns a zero count.
InitReadToEnd ==
    \E c \in 0..MaxCap, content \in SeqsUpTo(MaxFile), dlen \in 0..MaxLen :
        /\ from_std("reader", c, content)
        /\ drv = Drv(<<>>, dlen, "run")

ReadStep ==
    /\ drv.status = "run" /\ Alive
    /\ \E x \in read(World, drv.dlen) :
          /\ Commit("read", <<>>, drv.dlen, x)
          /\ drv' = CASE x.res = "Ok" ->
                            IF x.size = 0
                            THEN [drv EXCEPT !.status = "done"]
                            ELSE [drv EXCEPT !.out = @ \o x.bytes]
                      [] x.res = "WouldBlock" -> drv
                      [] OTHER -> [drv EXCEPT !.status = "failed"]
    /\ UNCHANGED <<kind, cap, sent>>

NextReadToEnd == ReadStep \/ Worker

SpecReadToEnd == InitReadToEnd /\ [][NextReadToEnd]_vars

\* it_stream: the stream is polled, each chunk appended, until it emits None.
InitStreamFold ==
    \E c \in 0..MaxCap, content \in SeqsUpTo(MaxFile) :
        /\ from_std("stream", c, content)
        /\ drv = Drv(<<>>, 0, "run")

FoldStep ==
    /\ drv.status = "run" /\ Alive
    /\ \E x \in poll(World) :
          /\ Commit("poll", <<>>, 0, x)
          /\ drv' = CASE x.res = "Some" -> [drv EXCEPT !.out = @ \o x.bytes]
                      [] x.res = "None" -> [drv EXCEPT !.status = "done"]
                      [] x.res = "Async_NotReady" -> drv
                      [] OTHER -> [drv EXCEPT !.status = "failed"]
    /\ UNCHANGED <<kind, cap, sent>>

NextStreamFold == FoldStep \/ Worker

SpecStreamFold == InitStreamFold /\ [][NextStreamFold]_vars

\* ---- retrying one operation ---------------------------------------------------
\* After any calls, the caller settles on one operation and re-invokes it with
\* the same argument until it returns something other than "not yet".
RetryOps == {"write", "flush", "start_send", "poll_complete", "read", "poll"}

OpsOf(k) ==
    CASE k = "writer" -> {"write", "flush"}
      [] k = "sink" -> {"start_send", "poll_complete"}
      [] k = "reader" -> {"read"}
      [] OTHER -> {"poll"}

NotYet == {"WouldBlock", "Async_NotReady", "AsyncSink_NotReady"}

Handler(op, w, arg, dlen) ==
    CASE op = "write" -> write(w, arg)
      [] op = "flush" -> flush(w)
      [] op = "start_send" -> start_send(w, arg)
      [] op = "poll_complete" -> poll_complete(w)
      [] op = "read" -> read(w, dlen)
      [] OTHER -> poll(w)

FreeStep ==
    /\ drv.status = "free"
    /\ \/ CallWrite
       \/ CallFlush
       \/ CallStartSend
       \/ CallPollComplete
       \/ CallRead
       \/ CallPoll

BeginRetry ==
    /\ drv.status = "free" /\ Alive
    /\ \E op \in OpsOf(kind), arg \in SeqsUpTo(MaxLen), d \in 0..MaxLen :
          /\ op \notin {"write", "start_send"} => arg = <<>>
          /\ op # "read" => d = 0
          /\ drv' = [NoDrv EXCEPT !.status = op, !.input = <<arg>>, !.dlen = d]
    /\ UNCHANGED <<kind, state, fut, buf, cap, file, tasks, ret, panicked, sent, hist>>

RetryStep ==
    /\ drv.status \in RetryOps /\ Alive
    /\ LET arg == drv.input[1]
       IN  \E x \in Handler(drv.status, World, arg, drv.dlen) :
              /\ Commit(drv.status, arg,
                        IF drv.status = "read" THEN drv.dlen ELSE Len(arg), x)
              /\ sent' = IF x.res = "AsyncSink_Ready" THEN sent \o arg ELSE sent
              /\ drv' = IF x.res \in NotYet THEN drv ELSE [drv EXCEPT !.status = "done"]
    /\ UNCHANGED <<kind, cap>>

NextRetry == FreeStep \/ BeginRetry \/ RetryStep \/ Worker

\* The caller keeps re-invoking and the pool's workers keep running closures.
SpecRetry == Init /\ [][NextRetry]_vars /\ WF_vars(RetryStep) /\ WF_vars(Worker)

\* ---- properties -----------------------------------------------------------
\* Places the file handle can be: in the instance, in a queued closure, or in
\* a completed future's result that has not been polled yet.
HandleHolders ==
    (IF state = "Ready" THEN 1 ELSE 0) + Len(tasks)
        + (IF fut.st = "ready" /\ fut.ok THEN 1 ELSE 0)

IsCall(r) ==
    r.op \in {"write", "flush", "start_send", "poll_complete", "read", "poll"}

\* C1: single-flight.  For every machine and every sequence of calls and worker
\* completions at most one pool task holding the file is outstanding, and the
\* handle is in at most one place; in particular no flush is queued beside a
\* write nor a write beside a flush.
C1_SingleFlight == Len(tasks) <= 1 /\ HandleHolders <= 1

\* C1 witness: flush was called while a write was outstanding and was refused.
C1_FlushDuringWrite ==
    /\ state = "Write" /\ Len(tasks) = 1 /\ tasks[1].op = "write"
    /\ ret.op = "flush" /\ ret.res = "WouldBlock"

\* C2: writer round trip.  When every string has been written by retrying
\* write with what remains of it until the reported counts exhaust it, with no
\* I/O failure and a buffer capacity of at least 1, the file is the
\* concatenation of the strings in call order.
C2_WriterRoundTrip ==
    (drv.status = "done" /\ cap >= 1) => file.content = Concat(drv.input)

\* C2 witness: two strings, one longer than the buffer, written and done.
C2_WroteTwoStrings ==
    /\ drv.status = "done" /\ cap = 1 /\ Len(drv.input) = 2
    /\ Len(drv.input[1]) = 2 /\ Len(drv.input[2]) >= 1
    /\ file.content = Concat(drv.input)

\* C3: sink round trip.  When every chunk has been offered to start_send until
\* accepted and poll_complete has then returned Ready, the file is the
\* concatenation of the chunks in push order, for every interleaving of worker
\* completions.
C3_SinkRoundTrip == drv.status = "done" => file.content = Concat(drv.input)

\* C3 witness: two non-empty chunks were pushed, one of them after having been
\* rejected or not, and the sink drained.
C3_PushedTwoChunks ==
    /\ drv.status = "done" /\ Len(drv.input) = 2
    /\ Len(drv.input[1]) >= 1 /\ Len(drv.input[2]) >= 1
    /\ drv.input[1] # drv.input[2]
    /\ file.content = Concat(drv.input)

\* C4 as claimed: reading in a loop until a zero count reproduces the file,
\* whatever the destination length and buffer capacity.
C4_ReadToEndAnyLength == drv.status = "done" => drv.out = file.content

\* C4: read to end.  With a buffer capacity of at least 1 and a destination of
\* length at least 1, reading in a loop (retrying on WouldBlock with the same
\* destination length) until a zero count reproduces the file's bytes.
C4_ReadToEnd ==
    (drv.status = "done" /\ cap >= 1 /\ drv.dlen >= 1) => drv.out = file.content

\* C4 witness: a file longer than the buffer was read to its end.
C4_ReadWholeFile ==
    /\ drv.status = "done" /\ cap >= 1 /\ drv.dlen >= 1
    /\ Len(file.content) > cap /\ drv.out = file.content

\* C5: stream round trip.  With buffer_size at least 1, the chunks emitted up
\* to the first None concatenate, in emission order, to the file's contents.
C5_StreamRoundTrip == (drv.status = "done" /\ cap >= 1) => drv.out = file.content

\* C5 witness: a file longer than buffer_size was streamed to None.
C5_StreamedWholeFile ==
    /\ drv.status = "done" /\ cap >= 1
    /\ Len(file.content) > cap /\ drv.out = file.content

\* C6 as claimed: once a call has reported the I/O failure of the blocking
\* call, the next call on the instance fails with the handle-unavailable /
\* already-shutdown error (and so does not poll the consumed future again).
C6_FailsShutdownAfterIoError ==
    [][(ret.res = "ErrIo" /\ IsCall(ret')) => ret'.res = "ErrShutdown"]_vars

\* C7 as claimed: a write call made while a write or a flush is in flight
\* polls it, so it returns WouldBlock only if the operation is still pending.
C7_WriteBlocksOnlyWhilePending ==
    (ret.op = "write" /\ ret.res = "WouldBlock") => fut.st = "pending"

\* C8 as claimed: a write (read) call that finds the machine Idle submits one
\* operation, leaves the machine in Writing (Reading) and returns WouldBlock.
C8_IdleCallReturnsWouldBlock ==
    [][(state = "Ready" /\ ret'.op \in {"write", "read"}) =>
            /\ ret'.spawned = 1
            /\ ret'.res = "WouldBlock"
            /\ state' = (IF ret'.op = "write" THEN "Write" ELSE "Read")]_vars

\* C8: a write (read) call that finds the machine Idle submits exactly one
\* blocking operation and polls it in the same call: if the worker has not
\* finished it the call returns WouldBlock and leaves the machine in Writing
\* (Reading) with that operation queued; otherwise the same call returns the
\* operation's result: the byte count, with the machine Idle again, or the
\* I/O failure.
C8_IdleCallSubmitsOnceThenPolls ==
    [][(state = "Ready" /\ ret'.op \in {"write", "read"}) =>
            /\ ret'.spawned = 1
            /\ \/ /\ ret'.res = "WouldBlock"
                  /\ state' = (IF ret'.op = "write" THEN "Write" ELSE "Read")
                  /\ Len(tasks') = Len(tasks) + 1 /\ fut'.st = "pending"
               \/ /\ ret'.res = "Ok"
                  /\ state' = "Ready" /\ tasks' = tasks
                  /\ Len(file'.content) - Len(file.content)
                        = (IF ret'.op = "write" THEN ret'.size ELSE 0)
                  /\ file'.pos = file.pos + ret'.size
               \/ /\ ret'.res = "ErrIo"
                  /\ state' = (IF ret'.op = "write" THEN "Write" ELSE "Read")
                  /\ tasks' = tasks /\ file' = file]_vars

\* C8 witness: a call that submitted a write returned its byte count itself.
C8_CountFromSubmittingCall ==
    /\ ret.op = "write" /\ ret.res = "Ok" /\ ret.spawned = 1 /\ ret.size >= 1
    /\ state = "Ready"

\* Bytes of the sink's queued write, if there is one.
PendingData == IF tasks = <<>> THEN <<>> ELSE tasks[1].data

\* C9: sink backpressure.  start_send accepts only when no earlier chunk's
\* write is pending (Idle, or the in-flight write found complete) and then
\* submits exactly one full write of the chunk; when the in-flight write is
\* pending it returns the same chunk and changes neither the machine nor the
\* file.  At most one accepted chunk is unwritten at any time.
C9_SinkBackpressure ==
    /\ [][ret'.op = "start_send" =>
            /\ ret'.res = "AsyncSink_Ready" =>
                  /\ state = "Ready" \/ (state = "Write" /\ fut.st = "ready" /\ fut.ok)
                  /\ tasks = <<>>
                  /\ ret'.spawned = 1
                  /\ Len(tasks') = 1 /\ tasks'[1].op = "write_all"
                  /\ tasks'[1].data = ret'.arg
                  /\ state' = "Write" /\ fut'.st = "pending"
                  /\ file' = file
            /\ ret'.res = "AsyncSink_NotReady" =>
                  /\ state = "Write" /\ fut.st = "pending"
                  /\ ret'.bytes = ret'.arg
                  /\ ret'.spawned = 0
                  /\ <<state', fut', tasks', file', sent'>>
                        = <<state, fut, tasks, file, sent>>]_vars
    /\ [](kind = "sink" =>
            /\ Len(tasks) <= 1
            /\ (state # "Dropped" /\ fut.ok) => sent = file.content \o PendingData)

\* C9 witness: a chunk was rejected while another chunk's write was pending.
C9_ChunkRejected ==
    /\ ret.op = "start_send" /\ ret.res = "AsyncSink_NotReady"
    /\ Len(ret.bytes) >= 1 /\ Len(tasks) = 1 /\ Len(tasks[1].data) >= 1
    /\ tasks[1].data # ret.bytes

\* C10: sink drain.  poll_complete never submits; when it returns Ready the
\* machine is Idle with the handle and every accepted chunk is in the file;
\* it returns NotReady exactly when the in-flight write has not completed.
C10_SinkDrain ==
    [][ret'.op = "poll_complete" =>
            /\ ret'.spawned = 0 /\ tasks' = tasks /\ file' = file
            /\ ret'.res = "Async_Ready" =>
                  /\ state' = "Ready" /\ fut'.st = "none" /\ tasks' = <<>>
                  /\ HandleHolders' = 1
                  /\ file'.content = sent'
            /\ ret'.res = "Async_NotReady" <=> (state = "Write" /\ fut.st = "pending")]_vars

\* C10 witness: poll_complete returned Ready after an accepted chunk's write
\* had completed on the worker.
C10_Drained ==
    /\ ret.op = "poll_complete" /\ ret.res = "Async_Ready"
    /\ state = "Ready" /\ Len(sent) >= 2 /\ file.content = sent


\* C11: partial-write policy.  The blocking write submitted by a write call on
\* an Idle writer writes only a prefix of that call's input, of length at most
\* min(len(input), buffer capacity), and the count reported for it never
\* exceeds that minimum.
C11_PartialWrite ==
    /\ [][kind = "writer" =>
            \E n \in 0..Min(hist'.alen, cap) :
                file'.content = file.content \o SubSeq(hist'.arg, 1, n)]_vars
    /\ []((kind = "writer" /\ ret.op = "write" /\ ret.res = "Ok")
            => ret.size <= Min(hist.alen, cap))

\* C11 witness: an input longer than the buffer was cut to the capacity.
C11_Truncated ==
    /\ ret.op = "write" /\ ret.res = "Ok" /\ cap >= 1
    /\ hist.alen > cap /\ ret.size = cap
    /\ file.content = SubSeq(hist.arg, 1, cap)


\* C12: the stream never emits Some(chunk) with an empty chunk: an emitted
\* chunk has between 1 and buffer_size bytes, and a completed read of zero
\* bytes is reported as None.
C12_NoEmptyChunk ==
    /\ []((ret.op = "poll" /\ ret.res = "Some")
            => (Len(ret.bytes) >= 1 /\ Len(ret.bytes) <= cap
                /\ ret.size = Len(ret.bytes)))
    /\ [][(ret'.op = "poll" /\ state = "Read" /\ fut.st = "ready" /\ fut.ok
            /\ fut.chunk = <<>>) => ret'.res = "None"]_vars

\* C12 witness: a chunk of buffer_size bytes was emitted, and later a read of
\* zero bytes was reported as None.
C12_ChunkThenNone ==
    /\ ret.op = "poll" /\ ret.res = "None" /\ hist.ended
    /\ cap >= 2 /\ file.pos >= cap


\* C13: the end of the stream is permanent.  When poll emits None the machine
\* is Idle; after that no call emits Some, every call that finds the machine
\* Idle submits another read, and, as long as the instance exists and no read
\* fails, the calls emit None again.
C13_EndIsPermanent ==
    /\ []((ret.op = "poll" /\ ret.res = "None") => (state = "Ready" /\ hist.ended))
    /\ [][(hist.ended /\ ret'.op = "poll") =>
            /\ ret'.res # "Some"
            /\ state = "Ready" => ret'.spawned = 1]_vars
    /\ ((hist.ended /\ ret.res # "None")
            ~> (ret.res = "None" \/ ~fut.ok \/ state = "Dropped" \/ panicked))

\* C13 witness: after a None that followed a chunk, a further call submitted a
\* read and None was emitted again.
C13_NoneAgain ==
    /\ ret.op = "poll" /\ ret.res = "None" /\ ret.spawned = 1
    /\ file.pos = Len(file.content) /\ file.pos >= 1 /\ cap >= 1
    /\ hist.ended /\ state = "Ready"


\* C14 as claimed: whenever the stream emits None the handle is at the end of
\* the file, for every buffer_size, 0 included.
C14_NoneAtEndAnySize == drv.status = "done" => file.pos = Len(file.content)

\* C14: whenever a stream with buffer_size at least 1 emits None, the handle
\* is at the end of the file and every byte before it was emitted in the
\* earlier chunks.
C14_NoneAtEnd ==
    (drv.status = "done" /\ cap >= 1)
        => (file.pos = Len(file.content) /\ Len(drv.out) = file.pos
            /\ ret.op = "poll" /\ ret.res = "None")

\* C14 witness: None was emitted at the end of a file of several bytes.
C14_EndReached ==
    /\ drv.status = "done" /\ cap >= 1 /\ ret.res = "None"
    /\ Len(file.content) >= 2 /\ file.pos = Len(file.content)
    /\ Len(drv.out) = file.pos


\* The errored condition: the Transitioning marker, or an in-flight state whose
\* operation's I/O failure has been reported to the caller (handle lost).
Errored ==
    \/ state = "Swapping"
    \/ state \in {"Write", "Flush", "Read"} /\ fut.st = "consumed"

\* C15 as claimed: conversion back to a native handle succeeds if and only if
\* the machine is Idle; it fails with "handle unavailable" (the blocked error)
\* when an operation is outstanding and with "already shut down" when the
\* machine is in the Transitioning / errored condition.
C15_ConversionByCondition ==
    [][ret'.op = "try_from" =>
            /\ ret'.res = "Ok" <=> state = "Ready"
            /\ Errored => ret'.res = "ErrShutdown"
            /\ fut.st \in {"pending", "ready"} => ret'.res = "WouldBlock"]_vars


\* C16 as claimed: when a machine is destroyed while an operation is
\* outstanding, the submitted closure is never cancelled: the worker that
\* takes it still runs the blocking call.
C16_DroppedTaskStillRuns ==
    [][(state = "Dropped" /\ tasks # <<>> /\ ret'.op = "worker")
            => ret'.res = "Ran"]_vars


Success == {"Ok", "Async_Ready", "AsyncSink_Ready", "Some", "None"}

\* C18 as claimed: if every submitted task completes successfully and the
\* caller keeps re-invoking the same operation, the operation eventually
\* returns something other than WouldBlock / NotReady / Rejected, and the
\* machine is then Idle or has exactly one newly submitted operation.
C18_RetryReturns ==
    /\ ((drv.status \in RetryOps /\ fut.ok) ~> (drv.status = "done" \/ ~fut.ok))
    /\ [][(drv.status \in RetryOps /\ drv'.status = "done" /\ ret'.res \in Success)
            => (state' = "Ready" \/ (ret'.spawned = 1 /\ Len(tasks') = 1))]_vars


\* C19: the Swapping marker is never the state when a public operation has
\* returned (every Ready arm overwrites it with an in-flight state in the same
\* call), and no call ever returns the "already shutdown" error.
C19_SwappingNeverObserved ==
    /\ [](state # "Swapping")
    /\ [](IsCall(ret) => ret.res # "ErrShutdown")
    /\ [][(IsCall(ret') /\ state = "Ready" /\ ret'.spawned = 1)
            => /\ state' \in {"Write", "Flush", "Read", "Ready"}
               /\ state' # "Ready" => fut'.st # "none"]_vars

\* A call found the machine Ready, took the file out and left an in-flight state.
C19_ReadyArmLeftInFlight ==
    /\ IsCall(ret) /\ ret.spawned = 1 /\ ret.res \in NotYet
    /\ state \in {"Write", "Flush", "Read"} /\ fut.st = "pending"


\* C20: buffer isolation in the writer and the reader.  A call changes the
\* shared buffer only if it found the machine Ready with no task outstanding
\* (the fill precedes the submission); a read copies out of the buffer only in
\* the call whose poll reported completion, when no task is left; and a Ready
\* machine never has a task outstanding.  So the machine and a worker never
\* touch the buffer at the same time.
C20_BufferIsolation ==
    /\ [][(kind \in {"writer", "reader"} /\ IsCall(ret'))
            => /\ buf' # buf => (state = "Ready" /\ tasks = <<>>)
               /\ (ret'.op = "read" /\ ret'.res = "Ok")
                    => (tasks' = <<>> /\ (state = "Ready" \/ fut.st = "ready"))]_vars
    /\ []((kind \in {"writer", "reader"} /\ state = "Ready") => tasks = <<>>)
    /\ []((kind \in {"writer", "reader"} /\ tasks # <<>> /\ Head(tasks).watched)
            => (state \in {"Write", "Flush", "Read"} /\ fut.st = "pending"))

\* A write was attempted with other data while the submitted write was still
\* outstanding, and the buffer kept the submitted bytes.
C20_BufferKeptWhileOutstanding ==
    /\ kind = "writer" /\ ret.op = "write" /\ ret.res = "WouldBlock" /\ ret.spawned = 0
    /\ state = "Write" /\ tasks # <<>> /\ Head(tasks).watched /\ fut.st = "pending"
    /\ cap >= 1 /\ buf # <<>> /\ ret.arg # <<>>
    /\ buf # SubSeq(ret.arg, 1, Min(Len(ret.arg), cap))


\* C21 as claimed: a read call that finds its task completed successfully
\* returns a count no larger than the destination passed to that call, and has
\* copied exactly that many bytes into it, also when the submitting call had a
\* longer destination.
C21_ReadCountFitsDest ==
    /\ [][(ret'.op = "read" /\ state = "Read" /\ fut.st = "ready" /\ fut.ok)
            => /\ ret'.res = "Ok"
               /\ ret'.size <= ret'.alen
               /\ Len(ret'.bytes) = ret'.size]_vars
    /\ []((ret.op = "read" /\ ret.res = "Ok") => ret.size <= ret.alen)

\* C22 as claimed: a write call that returns a count returns one no larger than
\* the slice passed to that call, and the bytes that reached the file are a
\* prefix of that slice, also when the submitting call passed another slice.
C22_WriteCountFitsSlice ==
    [][(ret'.op = "write" /\ ret'.res = "Ok")
         => /\ ret'.size <= Len(ret'.arg)
            /\ SubSeq(buf', 1, ret'.size) = SubSeq(ret'.arg, 1, ret'.size)]_vars


\* C23 as claimed: whenever the writer's shutdown reports Ready, no write or
\* flush submitted through the writer is outstanding: the machine is Idle and
\* no task is queued or in flight.
C23_ShutdownMeansQuiescent ==
    (ret.op = "shutdown" /\ ret.res = "Async_Ready")
        => (state = "Ready" /\ fut.st = "none" /\ tasks = <<>>)

====
